---- MODULE Spec2Model ----
(***************************************************************************)
(* Model of redirector/main.js: the page-load handler that classifies the  *)
(* host token, issues one SPARQL query, normalizes the rows into an        *)
(* insertion-ordered entity map and decides whether to redirect.           *)
(*                                                                         *)
(* JavaScript strings that the code inspects (the host, the token, entity  *)
(* ids) are sequences of one-character strings.  A website value is the    *)
(* sequence of the dot-separated labels of its host (scheme "http", path   *)
(* "/").  An object used as a map with non-numeric string keys is the      *)
(* sequence of its entries in insertion order, which is the order          *)
(* Object.entries and for-in enumerate.                                    *)
(***************************************************************************)
EXTENDS Integers, Sequences, FiniteSets, TLC

VARIABLES
    pc,           \* position of the run: see the three specifications
    host,         \* window.location.host
    navEntries,   \* types of performance.getEntriesByType("navigation")
    requestURL,   \* the query the handler built (line 32, 38-46)
    delay,        \* let delay (line 33)
    response,     \* the fetch response, once resolved
    results,      \* const results (line 63)
    statusText,   \* #status textContent
    progress,     \* <progress> value attribute
    shown,        \* what displayResults rendered
    console,      \* console.error calls
    timers,       \* pending setTimeout callbacks
    navigations,  \* window.location.assign calls
    log,          \* the calls the handler made, in program order
    bindings,     \* normalizer run: response.results.bindings
    entities,     \* normalizer run: returned map
    token,        \* classifier run: the query string
    classified    \* classifier run: the outcome of lines 33-47

vars == << pc, host, navEntries, requestURL, delay, response, results,
           statusText, progress, shown, console, timers, navigations, log,
           bindings, entities, token, classified >>

(***************************************************************************)
(* Bounds of the model.                                                    *)
(***************************************************************************)
MaxTokenLen == 3       \* classifier runs: longest token
MaxRows == 3           \* normalizer runs: most rows in a response
MaxBindings == 2       \* page-load runs: most rows in a response
MaxSubdomainLen == 2   \* page-load runs: longest subdomain of the host

SeqsUpTo(S, n) == UNION { [1..k -> S] : k \in 0..n }

Max(S) == CHOOSE x \in S : \A y \in S : y <= x

Min(S) == CHOOSE x \in S : \A y \in S : x <= y

(***************************************************************************)
(* Global constants and the Rank enum.                                     *)
(***************************************************************************)
PREFERRED == 1

NORMAL == 2

DEPRECATED == 100

Rank == [PREFERRED |-> PREFERRED, NORMAL |-> NORMAL, DEPRECATED |-> DEPRECATED]

undefined == [type |-> "undefined"]

Number(n) == [type |-> "number", value |-> n]

BASE_HOST == << "l", "o", "c", "a", "l", "h", "o", "s", "t", ":", "8", "0", "8", "0" >>

(***************************************************************************)
(* String primitives of the runtime, on character sequences.               *)
(***************************************************************************)
Digits == { "0", "1", "2", "3", "4", "5", "6", "7", "8", "9" }

UpperChar(c) ==
    CASE c = "q" -> "Q"
      [] c = "a" -> "A"
      [] c = "l" -> "L"
      [] c = "o" -> "O"
      [] c = "c" -> "C"
      [] c = "h" -> "H"
      [] c = "s" -> "S"
      [] c = "t" -> "T"
      [] OTHER -> c

LowerChar(c) ==
    CASE c = "Q" -> "q"
      [] c = "A" -> "a"
      [] OTHER -> c

toUpperCase(s) == [i \in 1..Len(s) |-> UpperChar(s[i])]

toLowerCase(s) == [i \in 1..Len(s) |-> LowerChar(s[i])]

\* String.prototype.lastIndexOf: 0-based index of the last occurrence, or -1
lastIndexOf(str, search) ==
    LET at == { i \in 0..(Len(str) - Len(search)) :
                  SubSeq(str, i + 1, i + Len(search)) = search }
    IN  IF at = {} THEN -1 ELSE Max(at)

\* String.prototype.substring(0, end): a negative end counts as 0
substring0(str, end) == SubSeq(str, 1, IF end < 0 THEN 0 ELSE end)

removeSuffix(str, suffix) ==
    LET cut == substring0(str, lastIndexOf(str, suffix))
    IN  IF cut = << >> THEN str ELSE cut

(***************************************************************************)
(* Classification of the token and the two queries (lines 33-47).          *)
(***************************************************************************)
\* the match without the i flag
matchesItemId_caseSensitive(query) ==
    \E i \in 1..(Len(query) - 1) :
        /\ query[i] = "q"
        /\ query[i + 1] \in Digits

\* query.match(/q[0-9]+/i) is not null
matchesItemId(query) ==
    \E i \in 1..(Len(query) - 1) :
        /\ query[i] \in { "q", "Q" }
        /\ query[i + 1] \in Digits

prepareSparqlSearchQuery(term) == [kind |-> "search", text |-> term]

prepareSparqlLookupQuery(id) == [kind |-> "lookup", text |-> toUpperCase(id)]

classify(query) ==
    IF matchesItemId(query)
    THEN [query |-> prepareSparqlLookupQuery(query), delay |-> 0]
    ELSE [query |-> prepareSparqlSearchQuery(query), delay |-> 1000]

(***************************************************************************)
(* URLs, ranks and the Result Normalizer.                                  *)
(***************************************************************************)
LowerLabel(l) ==
    CASE l = "ONION" -> "onion"
      [] l = "X" -> "x"
      [] OTHER -> l

\* new URL(value): the host of an http URL is lower-cased
URL(value) == [hostname |-> [i \in 1..Len(value) |-> LowerLabel(value[i])]]

\* url.hostname.endsWith(".onion")
isOnion(url) ==
    /\ Len(url.hostname) >= 2
    /\ url.hostname[Len(url.hostname)] = "onion"

PreferredRank == "http://wikiba.se/ontology#PreferredRank"

NormalRank == "http://wikiba.se/ontology#NormalRank"

DeprecatedRank == "http://wikiba.se/ontology#DeprecatedRank"

\* RANK_MAP is an object literal: a key it does not own is looked up on
\* Object.prototype, whose members are functions (__proto__: an object)
ObjectPrototypeKeys ==
    { "constructor", "toString", "toLocaleString", "valueOf", "hasOwnProperty",
      "isPrototypeOf", "propertyIsEnumerable", "__proto__", "__defineGetter__",
      "__defineSetter__", "__lookupGetter__", "__lookupSetter__" }

inherited(key) == [type |-> IF key = "__proto__" THEN "object" ELSE "function"]

parseRank(rank) ==
    CASE rank = PreferredRank -> Number(Rank.PREFERRED)
      [] rank = NormalRank -> Number(Rank.NORMAL)
      [] rank = DeprecatedRank -> Number(Rank.DEPRECATED)
      [] rank \in ObjectPrototypeKeys -> inherited(rank)
      [] OTHER -> undefined

\* itemUri in entities.  Keys are entity URIs of the shape .../entity/Q<digits>
\* (generatePermalink requires it): none is an array index, so enumeration is
\* insertion order, and none names a member of Object.prototype.
hasKey(map, uri) == \E i \in 1..Len(map) : map[i].uri = uri

keyIndex(map, uri) == CHOOSE i \in 1..Len(map) : map[i].uri = uri

\* the iteration with the entity created before the onion check
transformBinding_createBeforeFilter(map, binding) ==
    LET itemUri == binding.item
        websiteUrl == URL(binding.website)
        created ==
            IF ~hasKey(map, itemUri)
            THEN Append(map, [uri |-> itemUri,
                              label |-> binding.itemLabel,
                              description |-> binding.itemDescription,
                              websites |-> << >>])
            ELSE map
        i == keyIndex(created, itemUri)
    IN  IF isOnion(websiteUrl)
        THEN created
        ELSE [created EXCEPT ![i].websites =
                 Append(@, [url |-> websiteUrl, rank |-> parseRank(binding.rank)])]

\* the iteration with label and description taken from every row
transformBinding_lastRowMeta(map, binding) ==
    LET itemUri == binding.item
        websiteUrl == URL(binding.website)
    IN  IF isOnion(websiteUrl)
        THEN map
        ELSE LET created ==
                     IF ~hasKey(map, itemUri)
                     THEN Append(map, [uri |-> itemUri,
                                       label |-> binding.itemLabel,
                                       description |-> binding.itemDescription,
                                       websites |-> << >>])
                     ELSE map
                 i == keyIndex(created, itemUri)
             IN  [created EXCEPT ![i].label = binding.itemLabel,
                                 ![i].description = binding.itemDescription,
                                 ![i].websites =
                      Append(@, [url |-> websiteUrl,
                                 rank |-> parseRank(binding.rank)])]

\* one iteration of the for loop of transformSparqlResponse
transformBinding(map, binding) ==
    LET itemUri == binding.item
        websiteUrl == URL(binding.website)
    IN  IF isOnion(websiteUrl)
        THEN map
        ELSE LET created ==
                     IF ~hasKey(map, itemUri)
                     THEN Append(map, [uri |-> itemUri,
                                       label |-> binding.itemLabel,
                                       description |-> binding.itemDescription,
                                       websites |-> << >>])
                     ELSE map
                 i == keyIndex(created, itemUri)
             IN  [created EXCEPT ![i].websites =
                      Append(@, [url |-> websiteUrl,
                                 rank |-> parseRank(binding.rank)])]

RECURSIVE transformLoop(_, _)
transformLoop(map, rows) ==
    IF rows = << >>
    THEN map
    ELSE transformLoop(transformBinding(map, Head(rows)), Tail(rows))

transformSparqlResponse(rows) == transformLoop(<< >>, rows)

isEmpty(obj) == Len(obj) = 0

(***************************************************************************)
(* Inputs.                                                                 *)
(***************************************************************************)
Alphabet == { "q", "Q", "1", "a" }

Tokens == SeqsUpTo(Alphabet, MaxTokenLen)

\* entity URIs http://www.wikidata.org/entity/Q1 and .../Q2, by their item id
ItemUris == { << "Q", "1" >>, << "Q", "2" >> }

Websites == { << "a", "example" >>, << "b", "example" >>, << "X", "ONION" >> }

RankCodes == { PreferredRank, "http://wikiba.se/ontology#BestRank" }

Labels == { "L1", "L2" }

Rows ==
    { [item |-> e, itemLabel |-> l, itemDescription |-> l, website |-> w, rank |-> r] :
        e \in ItemUris, l \in Labels, w \in Websites, r \in RankCodes }

(***************************************************************************)
(* UI helpers and the decision of lines 65-82.                             *)
(***************************************************************************)
\* /^.*\/entity\/(Q[0-9]+)$/.exec(uri)[1].toLowerCase(), then `//${qid}.${BASE_HOST}`
generatePermalink(uri) == << "/", "/" >> \o toLowerCase(uri) \o << "." >> \o BASE_HOST

card(entry) ==
    [uri |-> entry.uri,
     name |-> entry.label,
     description |-> entry.description,
     permalink |-> generatePermalink(entry.uri),
     urls |-> [j \in 1..Len(entry.websites) |-> entry.websites[j].url]]

displayResults(map) ==
    LET otherResults == Tail(map)
    IN  [visible |-> TRUE,
         top |-> << card(Head(map)) >>,
         others |-> [k \in 1..Len(otherResults) |-> card(otherResults[k])],
         summary |-> CASE Len(otherResults) = 0 -> << >>
                       [] Len(otherResults) = 1 -> << 1, "more result" >>
                       [] OTHER -> << Len(otherResults), "more results" >>]

\* the check against a type the browser never reports
didNavigateBack_wrongType(entries) ==
    /\ Len(entries) > 0
    /\ entries[Len(entries)] = "back"

didNavigateBack(entries) ==
    /\ Len(entries) > 0
    /\ entries[Len(entries)] = "back_forward"

NotShown == [visible |-> FALSE, top |-> << >>, others |-> << >>, summary |-> << >>]

\* lines 65-82 with "Redirecting..." set before the back-navigation check
decide_redirectingBeforeCheck(map, entries, d) ==
    IF isEmpty(map)
    THEN [statusText |-> "Not found.",
          shown |-> NotShown,
          timers |-> << >>,
          log |-> << "updateProgress(100)", "isEmpty", "updateStatus(Not found.)" >>]
    ELSE IF ~didNavigateBack(entries)
    THEN [statusText |-> "Redirecting...",
          shown |-> displayResults(map),
          timers |-> << [delay |-> d] >>,
          log |-> << "updateProgress(100)", "isEmpty", "updateStatus(Found.)",
                     "displayResults", "updateStatus(Redirecting...)",
                     "didNavigateBack", "setTimeout" >>]
    ELSE [statusText |-> "Redirecting...",
          shown |-> displayResults(map),
          timers |-> << >>,
          log |-> << "updateProgress(100)", "isEmpty", "updateStatus(Found.)",
                     "displayResults", "updateStatus(Redirecting...)",
                     "didNavigateBack" >>]

\* lines 65-82: what the handler does with the normalized map
decide(map, entries, d) ==
    IF isEmpty(map)
    THEN [statusText |-> "Not found.",
          shown |-> NotShown,
          timers |-> << >>,
          log |-> << "updateProgress(100)", "isEmpty", "updateStatus(Not found.)" >>]
    ELSE IF ~didNavigateBack(entries)
    THEN [statusText |-> "Redirecting...",
          shown |-> displayResults(map),
          timers |-> << [delay |-> d] >>,
          log |-> << "updateProgress(100)", "isEmpty", "updateStatus(Found.)",
                     "displayResults", "didNavigateBack",
                     "updateStatus(Redirecting...)", "setTimeout" >>]
    ELSE [statusText |-> "Found.",
          shown |-> displayResults(map),
          timers |-> << >>,
          log |-> << "updateProgress(100)", "isEmpty", "updateStatus(Found.)",
                     "displayResults", "didNavigateBack" >>]

(***************************************************************************)
(* Page-load runs.                                                         *)
(***************************************************************************)
HostAlphabet == { "q", "Q", "1" }

Subdomains == SeqsUpTo(HostAlphabet, MaxSubdomainLen) \ { << >> }

Hosts == { sub \o << "." >> \o BASE_HOST : sub \in Subdomains } \cup { BASE_HOST }

NavigationEntries == { << >>, << "navigate" >>, << "back_forward" >> }

NoResponse == [settled |-> "pending", ok |-> FALSE]

NoQuery == [kind |-> "none", text |-> << >>]

HandlerBlank ==
    /\ requestURL = NoQuery
    /\ delay = 1000
    /\ response = NoResponse
    /\ results = << >>
    /\ statusText = ""
    /\ progress = ""
    /\ shown = NotShown
    /\ console = << >>
    /\ timers = << >>
    /\ navigations = << >>
    /\ log = << >>

NormBlank ==
    /\ bindings = << >>
    /\ entities = << >>

ClassBlank ==
    /\ token = << >>
    /\ classified = [query |-> NoQuery, delay |-> 1000]

Init ==
    /\ pc = "start"
    /\ host \in Hosts
    /\ navEntries \in NavigationEntries
    /\ HandlerBlank
    /\ NormBlank
    /\ ClassBlank

pureVars == << bindings, entities, token, classified >>

\* lines 31-55 with the status set only after the query is issued
Load_fetchFirst ==
    /\ pc = "start"
    /\ LET query == removeSuffix(host, << "." >> \o BASE_HOST)
           c == classify(query)
       IN  /\ requestURL' = c.query
           /\ delay' = c.delay
    /\ statusText' = "Searching..."
    /\ log' = log \o << "fetch", "updateStatus(Searching...)" >>
    /\ pc' = "awaitFetch"
    /\ UNCHANGED << host, navEntries, response, results, progress, shown,
                    console, timers, navigations, pureVars >>

\* lines 31-55: up to the first await
Load ==
    /\ pc = "start"
    /\ LET query == removeSuffix(host, << "." >> \o BASE_HOST)
           c == classify(query)
       IN  /\ requestURL' = c.query
           /\ delay' = c.delay
    /\ statusText' = "Searching..."
    /\ log' = log \o << "updateStatus(Searching...)", "fetch" >>
    /\ pc' = "awaitFetch"
    /\ UNCHANGED << host, navEntries, response, results, progress, shown,
                    console, timers, navigations, pureVars >>

\* the fetch promise rejects: the async handler ends with an unhandled rejection
FetchReject ==
    /\ pc = "awaitFetch"
    /\ response' = [settled |-> "rejected", ok |-> FALSE]
    /\ pc' = "rejected"
    /\ UNCHANGED << host, navEntries, requestURL, delay, results, statusText,
                    progress, shown, console, timers, navigations, log, pureVars >>

\* lines 56-60 without the return
FetchNotOk_noReturn ==
    /\ pc = "awaitFetch"
    /\ response' = [settled |-> "fulfilled", ok |-> FALSE]
    /\ statusText' = "Search failed!"
    /\ console' = Append(console, "Search error")
    /\ log' = log \o << "response", "updateStatus(Search failed!)", "console.error",
                         "response.json" >>
    /\ pc' = "awaitJson"
    /\ UNCHANGED << host, navEntries, requestURL, delay, results, progress,
                    shown, timers, navigations, pureVars >>

\* lines 56-60
FetchNotOk ==
    /\ pc = "awaitFetch"
    /\ response' = [settled |-> "fulfilled", ok |-> FALSE]
    /\ statusText' = "Search failed!"
    /\ console' = Append(console, "Search error")
    /\ log' = log \o << "response", "updateStatus(Search failed!)", "console.error" >>
    /\ pc' = "done"
    /\ UNCHANGED << host, navEntries, requestURL, delay, results, progress,
                    shown, timers, navigations, pureVars >>

\* lines 56, 62: the response is ok and the handler awaits its body
FetchOk ==
    /\ pc = "awaitFetch"
    /\ response' = [settled |-> "fulfilled", ok |-> TRUE]
    /\ log' = log \o << "response", "response.json" >>
    /\ pc' = "awaitJson"
    /\ UNCHANGED << host, navEntries, requestURL, delay, results, statusText,
                    progress, shown, console, timers, navigations, pureVars >>

\* response.json() rejects (the body is no JSON)
JsonReject ==
    /\ pc = "awaitJson"
    /\ pc' = "rejected"
    /\ UNCHANGED << host, navEntries, requestURL, delay, response, results,
                    statusText, progress, shown, console, timers, navigations,
                    log, pureVars >>

\* the bodies response.json() may resolve to: response.results.bindings
ResponseBodies == SeqsUpTo(Rows, MaxBindings)

\* line 63 on each of them
NormalizedBodies == { transformSparqlResponse(rows) : rows \in ResponseBodies }

\* lines 62-82
JsonResolve ==
    /\ pc = "awaitJson"
    /\ \E map \in NormalizedBodies :
       LET out == decide(map, navEntries, delay)
       IN  /\ results' = map
           /\ statusText' = out.statusText
           /\ shown' = out.shown
           /\ timers' = timers \o out.timers
           /\ log' = log \o << "transformSparqlResponse" >> \o out.log
    /\ progress' = "100"
    /\ pc' = "done"
    /\ UNCHANGED << host, navEntries, requestURL, delay, response, console,
                    navigations, pureVars >>

\* the timer callback taking the last destination of the top entity
TimerFire_lastWebsite ==
    /\ timers # << >>
    /\ LET item == Head(results)
       IN  navigations' = Append(navigations, item.websites[Len(item.websites)].url)
    /\ timers' = Tail(timers)
    /\ log' = Append(log, "location.assign")
    /\ UNCHANGED << pc, host, navEntries, requestURL, delay, response, results,
                    statusText, progress, shown, console, pureVars >>

\* lines 78-81: the timer callback
TimerFire ==
    /\ timers # << >>
    /\ LET item == Head(results)
       IN  navigations' = Append(navigations, item.websites[1].url)
    /\ timers' = Tail(timers)
    /\ log' = Append(log, "location.assign")
    /\ UNCHANGED << pc, host, navEntries, requestURL, delay, response, results,
                    statusText, progress, shown, console, pureVars >>

Next ==
    \/ Load
    \/ FetchReject
    \/ FetchNotOk
    \/ FetchOk
    \/ JsonReject
    \/ JsonResolve
    \/ TimerFire

Spec == Init /\ [][Next]_vars

(***************************************************************************)
(* Normalizer runs: transformSparqlResponse applied to a row sequence.     *)
(***************************************************************************)
handlerVars == << host, navEntries, requestURL, delay, response, results,
                  statusText, progress, shown, console, timers, navigations, log >>

RowSequences == SeqsUpTo(Rows, MaxRows)

InitNorm ==
    /\ pc = "rows"
    /\ bindings \in RowSequences
    /\ entities = << >>
    /\ host = << >>
    /\ navEntries = << >>
    /\ HandlerBlank
    /\ ClassBlank

Transform ==
    /\ pc = "rows"
    /\ entities' = transformSparqlResponse(bindings)
    /\ pc' = "returned"
    /\ UNCHANGED << handlerVars, bindings, token, classified >>

SpecNorm == InitNorm /\ [][Transform]_vars

(***************************************************************************)
(* Normalizer runs over rows whose rank code is any string: a known code,  *)
(* a code the mapping does not know, or the name of an inherited property. *)
(***************************************************************************)
AnyRankCodes ==
    { PreferredRank, NormalRank, "http://wikiba.se/ontology#BestRank", "constructor" }

RankedRows ==
    { [item |-> e, itemLabel |-> "L1", itemDescription |-> "L1", website |-> w, rank |-> r] :
        e \in ItemUris, w \in Websites, r \in AnyRankCodes }

RankedRowSequences == SeqsUpTo(RankedRows, MaxRows)

InitRanks ==
    /\ pc = "rows"
    /\ bindings \in RankedRowSequences
    /\ entities = << >>
    /\ host = << >>
    /\ navEntries = << >>
    /\ HandlerBlank
    /\ ClassBlank

SpecRanks == InitRanks /\ [][Transform]_vars

(***************************************************************************)
(* Classifier runs: lines 33-47 applied to a token.                        *)
(***************************************************************************)
InitClassify ==
    /\ pc = "token"
    /\ token \in Tokens
    /\ classified = [query |-> NoQuery, delay |-> 1000]
    /\ host = << >>
    /\ navEntries = << >>
    /\ HandlerBlank
    /\ NormBlank

Classify ==
    /\ pc = "token"
    /\ classified' = classify(token)
    /\ pc' = "classified"
    /\ UNCHANGED << handlerVars, bindings, entities, token >>

SpecClassify == InitClassify /\ [][Classify]_vars

(***************************************************************************)
(* Vocabulary of the properties, stated without the operators above.       *)
(***************************************************************************)
Events(l) == { l[i] : i \in 1..Len(l) }

Position(l, e) == Min({ i \in 1..Len(l) : l[i] = e })

\* the letter Q or q followed by one or more digits, anywhere in s
ContainsItemId(s) ==
    \E i \in 1..Len(s) : \E j \in (i + 1)..Len(s) :
        /\ s[i] = "q" \/ s[i] = "Q"
        /\ \A k \in (i + 1)..j : s[k] \in Digits

\* the token of the page-load run
PageToken ==
    IF host = BASE_HOST THEN host ELSE SubSeq(host, 1, Len(host) - Len(BASE_HOST) - 1)

BackSignal == navEntries # << >> /\ navEntries[Len(navEntries)] = "back_forward"

ResponseOk == response.settled = "fulfilled" /\ response.ok

ResponseNotOk == response.settled = "fulfilled" /\ ~response.ok

\* the host of a row's destination ends in ".onion", in any letter case
OnionRow(b) ==
    /\ Len(b.website) >= 2
    /\ b.website[Len(b.website)] \in { "onion", "ONION" }

\* the rows of uri that carry a destination, in input order
KeptRows(rows, uri) ==
    LET Keep(b) == b.item = uri /\ ~OnionRow(b)
    IN  SelectSeq(rows, Keep)

FirstKept(rows, uri) == Min({ i \in 1..Len(rows) : rows[i].item = uri /\ ~OnionRow(rows[i]) })

KnownRankCodes == { PreferredRank, NormalRank, DeprecatedRank }

(***************************************************************************)
(* Page-load runs (Spec).                                                  *)
(***************************************************************************)
\* C1: a navigation is scheduled exactly when the response succeeded, the
\* EntityMap is non-empty and the back-navigation signal is false; otherwise
\* none is scheduled or performed, and at most one navigation is performed.
C1_NavigationIff ==
    /\ ("setTimeout" \in Events(log)) <=> (ResponseOk /\ results # << >> /\ ~BackSignal)
    /\ Len(timers) + Len(navigations) = (IF "setTimeout" \in Events(log) THEN 1 ELSE 0)
    /\ Len(navigations) <= 1

C1_Witness ==
    /\ Len(navigations) = 1
    /\ ResponseOk /\ results # << >> /\ ~BackSignal

C1_WitnessSuppressed ==
    /\ pc = "done" /\ ResponseOk /\ results # << >> /\ BackSignal
    /\ timers = << >> /\ navigations = << >>

\* C2: a scheduled navigation has delay 0 for a direct lookup and 1000
\* otherwise; the map does not change while the timer is pending, and the
\* timer navigates to the first destination of the first-inserted entity.
C2_DelayOk ==
    timers # << >> =>
        /\ Len(timers) = 1
        /\ timers[1].delay = (IF ContainsItemId(PageToken) THEN 0 ELSE 1000)

C2_TargetStep ==
    /\ timers # << >> => results' = results
    /\ navigations' # navigations =>
           /\ timers # << >>
           /\ navigations' = << results[1].websites[1].url >>

C2_DelayAndTarget == []C2_DelayOk /\ [][C2_TargetStep]_vars

C2_Witness ==
    /\ Len(navigations) = 1
    /\ Len(results[1].websites) = 2
    /\ results[1].websites[1].url # results[1].websites[2].url
    /\ navigations[1] = results[1].websites[1].url
    /\ ContainsItemId(PageToken)
    /\ delay = 0

C2_WitnessSearch ==
    /\ Len(timers) = 1
    /\ timers[1].delay = 1000
    /\ ~ContainsItemId(PageToken)

\* C3: after a non-success response the status is "Search failed!" for good,
\* the failure is logged, the normalizer is never invoked, nothing is
\* displayed, progress is not set to 100 and no navigation occurs.
C3_SearchFailedTerminal ==
    ResponseNotOk =>
        /\ pc = "done"
        /\ statusText = "Search failed!"
        /\ console = << "Search error" >>
        /\ "transformSparqlResponse" \notin Events(log)
        /\ results = << >>
        /\ ~shown.visible
        /\ progress # "100"
        /\ "updateProgress(100)" \notin Events(log)
        /\ timers = << >>
        /\ navigations = << >>

C3_Witness == ResponseNotOk /\ statusText = "Search failed!"

\* C4: a rejected fetch is reported like a non-success response: status text
\* and diagnostic log report it, nothing is shown, nothing is navigated to,
\* and the status does not stay at "Searching...".
C4_TransportFailureReported ==
    response.settled = "rejected" =>
        /\ statusText # "Searching..."
        /\ console # << >>
        /\ ~shown.visible
        /\ timers = << >>
        /\ navigations = << >>

\* C5: after a successful query an empty map ends as "Not found." with nothing
\* displayed; a non-empty map with the back signal ends displayed with status
\* "Found." and never "Redirecting..."; "Redirecting..." is set only when a
\* navigation is scheduled, and after the results were displayed.
C5_FinalStatus ==
    /\ (pc = "done" /\ ResponseOk /\ results = << >>) =>
           /\ statusText = "Not found."
           /\ ~shown.visible
    /\ (pc = "done" /\ ResponseOk /\ results # << >> /\ BackSignal) =>
           /\ shown.visible
           /\ statusText = "Found."
           /\ "updateStatus(Redirecting...)" \notin Events(log)
    /\ ("updateStatus(Redirecting...)" \in Events(log) \/ statusText = "Redirecting...") =>
           /\ "setTimeout" \in Events(log)
           /\ "displayResults" \in Events(log)
           /\ "updateStatus(Redirecting...)" \in Events(log)
           /\ Position(log, "displayResults") < Position(log, "updateStatus(Redirecting...)")
           /\ shown.visible

C5_Witness ==
    /\ pc = "done" /\ ResponseOk /\ results # << >> /\ BackSignal
    /\ statusText = "Found."

C5_WitnessNotFound ==
    /\ pc = "done" /\ ResponseOk /\ results = << >>
    /\ statusText = "Not found."

\* C10: one query per run, and the steps are ordered by stage: status
\* "Searching...", the query, its completion, normalization, the decision
\* steps, the navigation.
Stage(e) ==
    CASE e = "updateStatus(Searching...)" -> 1
      [] e = "fetch" -> 2
      [] e \in { "response", "response.json", "updateStatus(Search failed!)", "console.error" } -> 3
      [] e = "transformSparqlResponse" -> 4
      [] e = "location.assign" -> 6
      [] OTHER -> 5

C10_StagesOrdered ==
    /\ Cardinality({ i \in 1..Len(log) : log[i] = "fetch" }) = (IF pc = "start" THEN 0 ELSE 1)
    /\ \A i, j \in 1..Len(log) : i < j => Stage(log[i]) <= Stage(log[j])
    /\ "fetch" \in Events(log) => "updateStatus(Searching...)" \in Events(log)
    /\ "transformSparqlResponse" \in Events(log) =>
           /\ ResponseOk
           /\ "response.json" \in Events(log)
    /\ \A e \in { "isEmpty", "displayResults", "didNavigateBack", "setTimeout" } :
           e \in Events(log) => "transformSparqlResponse" \in Events(log)

C10_Witness ==
    /\ "location.assign" \in Events(log)
    /\ Len(log) = 13

(***************************************************************************)
(* Normalizer runs (SpecNorm).                                             *)
(***************************************************************************)
\* C6: the returned map has no entity with an empty destination list and no
\* destination whose host ends in ".onion"; an entity whose rows are all
\* onion rows is not in the map.
C6_NoOnionNoEmpty ==
    pc = "returned" =>
        /\ \A k \in 1..Len(entities) :
               /\ entities[k].websites # << >>
               /\ \A j \in 1..Len(entities[k].websites) :
                      LET h == entities[k].websites[j].url.hostname
                      IN  h[Len(h)] \notin { "onion", "ONION" }
        /\ \A uri \in ItemUris :
               (\A i \in 1..Len(bindings) : bindings[i].item = uri => OnionRow(bindings[i]))
                   => \A k \in 1..Len(entities) : entities[k].uri # uri

C6_Witness ==
    /\ pc = "returned"
    /\ Len(bindings) = 3
    /\ OnionRow(bindings[1])
    /\ ~OnionRow(bindings[2])
    /\ bindings[2].item # bindings[1].item
    /\ bindings[3].item = bindings[1].item
    /\ OnionRow(bindings[3])
    /\ Len(entities) = 1

\* C7: one entry per entity URI that occurs in a non-onion row, in the order
\* of first occurrence in a non-onion row, with the label and description of
\* that row.
C7_FirstSeenOrder ==
    pc = "returned" =>
        /\ \A uri \in ItemUris :
               Cardinality({ k \in 1..Len(entities) : entities[k].uri = uri })
                   = (IF KeptRows(bindings, uri) # << >> THEN 1 ELSE 0)
        /\ \A k \in 1..Len(entities) :
               LET first == bindings[FirstKept(bindings, entities[k].uri)]
               IN  /\ entities[k].label = first.itemLabel
                   /\ entities[k].description = first.itemDescription
        /\ \A k, l \in 1..Len(entities) :
               k < l => FirstKept(bindings, entities[k].uri) < FirstKept(bindings, entities[l].uri)

\* the scenario of the specification: E1 a.example, E2 b.example, E1 x.onion
C7_Witness ==
    /\ pc = "returned"
    /\ Len(bindings) = 3
    /\ bindings[1].item = << "Q", "1" >> /\ bindings[1].website = << "a", "example" >>
    /\ bindings[2].item = << "Q", "2" >> /\ bindings[2].website = << "b", "example" >>
    /\ bindings[3].item = << "Q", "1" >> /\ OnionRow(bindings[3])
    /\ bindings[3].itemLabel # bindings[1].itemLabel
    /\ Len(entities) = 2
    /\ entities[1].uri = << "Q", "1" >>
    /\ Len(entities[1].websites) = 1

\* C8: an entity's destination list is the destinations of its non-onion rows,
\* one per row, in row order; a row whose rank code is not in the known
\* mapping still appends its destination, with an undefined rank.
C8_DestinationsInRowOrder ==
    pc = "returned" =>
        \A k \in 1..Len(entities) :
            LET kept == KeptRows(bindings, entities[k].uri)
                sites == entities[k].websites
            IN  /\ Len(sites) = Len(kept)
                /\ \A j \in 1..Len(kept) :
                       /\ sites[j].url = URL(kept[j].website)
                       /\ kept[j].rank \notin KnownRankCodes => sites[j].rank = undefined
                       /\ kept[j].rank = PreferredRank => sites[j].rank = Number(PREFERRED)

(***************************************************************************)
(* Classifier runs (SpecClassify).                                         *)
(***************************************************************************)
\* C9: a token is a direct lookup (lookup query of the upper-cased token,
\* delay 0) exactly when it contains Q or q followed by a digit; every other
\* token, the empty one included, is a search (search query of the token,
\* delay 1000).
C9_Classification ==
    pc = "classified" =>
        IF ContainsItemId(token)
        THEN /\ classified.query.kind = "lookup"
             /\ classified.query.text = [i \in 1..Len(token) |-> UpperChar(token[i])]
             /\ classified.delay = 0
        ELSE /\ classified.query.kind = "search"
             /\ classified.query.text = token
             /\ classified.delay = 1000

C9_Witness ==
    /\ pc = "classified"
    /\ token = << "a", "Q", "1" >>
    /\ classified.query.kind = "lookup"

C9_WitnessEmpty ==
    /\ pc = "classified"
    /\ token = << >>
    /\ classified.query.kind = "search"

====
